---- MODULE Spec2Model ----
(***************************************************************************)
(* Model of the biathlon results processor (src/main.go).                  *)
(*                                                                         *)
(* main reads the file "events" line by line, applies every line to the    *)
(* map competitorsStats with handleEvent and, at end of input, writes the  *)
(* ranked table with writeFinalReport.                                     *)
(*                                                                         *)
(* Times.  A time.Time is modelled as the number of minutes since          *)
(* 00:00 of January 1 of year 0, which is the date time.Parse gives to a   *)
(* value parsed with a clock-only layout.  The zero time.Time is January 1 *)
(* of year 1, i.e. 366 days later (year 0 is a leap year).  Event lines    *)
(* are sequences of strings, the result of strings.Split(event, " ").      *)
(*                                                                         *)
(* pc is "scan" while main reads lines, "fatal" after handleEvent returned *)
(* an error (logrus.Fatal ends the process), "panic" after a run-time      *)
(* panic, and "done" after writeFinalReport.                               *)
(*                                                                         *)
(* Specifications.  Spec: every events file of at most MaxEvents lines of  *)
(* Lines, followed by the report.  SpecRank: the report of ledgers of      *)
(* MaxRanked competitors.  SpecScenario: the files of the one-lap race     *)
(* (registered, draw, started, ended-lap).  SpecFormat: the report line of *)
(* a competitor with given durations, to the millisecond.                  *)
(***************************************************************************)
EXTENDS Integers, Sequences, FiniteSets, TLC

VARIABLES
    competitorsStats,   \* map[string]*competitorStat: function on the ids seen
    pc,                 \* "scan" | "fatal" | "panic" | "done"
    scanned,            \* number of lines handed to handleEvent so far
    logged,             \* the message of the last logrus call made ("" at the start)
    report,             \* lines written to resulting_table, in order
    cfg                 \* values read from the configuration

vars == <<competitorsStats, pc, scanned, logged, report, cfg>>

---------------------------------------------------------------------------
(* Bounds of the model *)

MaxEvents == 3      \* longest events file explored
MaxTick   == 1      \* clock values used: 10:00 and 30 min * MaxTick later
MaxDelta  == 1      \* startDelta values used: none and 30 min * MaxDelta
MaxLaps   == 2      \* configured lap counts used: 1 and MaxLaps
MaxCode   == 12     \* event codes used: 1..MaxCode (codes above 11 are unknown)

IDs == {"1", "2"}

---------------------------------------------------------------------------
(* time.Time and time.Duration, in minutes *)

ZeroTime == 366 * 1440

IsZero(t) == t = ZeroTime

After(t, u) == t > u

\* a time.Duration is kept as whole minutes plus the milliseconds left over
\* (same sign), so that the 366 days between a parsed time and the zero time fit
Duration(minutes, ms) == [min |-> minutes, ms |-> ms]

Sub(t, u) == Duration(t - u, 0)

\* d < e on time.Duration
Shorter(d, e) == d.min < e.min \/ (d.min = e.min /\ d.ms < e.ms)

Add(t, d) == t + d

Hour(t) == (t % 1440) \div 60

Minute(t) == t % 60

\* Go's integer conversion and % truncate toward zero
Quot(a, b) == IF a >= 0 THEN a \div b ELSE -((-a) \div b)

Rem(a, b) == a - b * Quot(a, b)

---------------------------------------------------------------------------
(* Text conversions *)

\* fmt verb %02d
Pad2(n) == IF n >= 0 /\ n < 10 THEN "0" \o ToString(n) ELSE ToString(n)

\* fmt verb %03d
Pad3(n) ==
    IF n >= 0 /\ n < 10 THEN "00" \o ToString(n)
    ELSE IF n >= 10 /\ n < 100 THEN "0" \o ToString(n)
    ELSE IF n < 0 /\ n > -10 THEN "-0" \o ToString(-n)
    ELSE ToString(n)

\* a clock value of the whole minute m, written in the layout "15:04:05.000"
ClockText(m) == Pad2(m \div 60) \o ":" \o Pad2(m % 60) \o ":00.000"

\* the same clock value written in the layout "15:04:05"
ShortClockText(m) == Pad2(m \div 60) \o ":" \o Pad2(m % 60) \o ":00"

ClockTable == [m \in 0..1439 |-> ClockText(m)]

ClockTexts == {ClockTable[m] : m \in 0..1439}

ClockValue == [s \in ClockTexts |-> CHOOSE m \in 0..1439 : ClockTable[m] = s]

\* time.Parse(timeFormat, s): the layout requires the three fraction digits
ParseTime(s) ==
    IF s \in ClockTexts
    THEN [err |-> FALSE, val |-> ClockValue[s]]
    ELSE [err |-> TRUE, val |-> ZeroTime]

\* the decimal numerals of 0..99 and their values
Numerals == {ToString(k) : k \in 0..99}

NumeralValue == [s \in Numerals |-> CHOOSE k \in 0..99 : ToString(k) = s]

\* strconv.Atoi(s)
Atoi(s) ==
    IF s \in Numerals
    THEN [err |-> FALSE, val |-> NumeralValue[s]]
    ELSE [err |-> TRUE, val |-> 0]

Times == {600, 600 + 30 * MaxTick}

\* the clock values of the scenario of the one-lap race: 10:00 and 10:30
ScenarioTimes == {600, 630}

EdgeChars == {"[", "]"}

InnerTexts == {ClockTable[t] : t \in Times \cup ScenarioTimes} \cup {"10:00", ""}

StampFields == {a \o c \o b : a \in EdgeChars, b \in EdgeChars, c \in InnerTexts} \cup {"", "["}

\* timeStr[1 : len(timeStr)-1]; the slice expression panics on a shorter string
StripEnds ==
    [s \in StampFields |->
        IF Len(s) < 2
        THEN [panic |-> TRUE, val |-> ""]
        ELSE [panic |-> FALSE,
              val |-> CHOOSE c \in InnerTexts :
                          \E a \in EdgeChars, b \in EdgeChars : s = a \o c \o b]]

RECURSIVE Join(_, _)
\* strings.Join(elems, sep)
Join(elems, sep) ==
    IF Len(elems) = 0 THEN ""
    ELSE IF Len(elems) = 1 THEN elems[1]
    ELSE elems[1] \o sep \o Join(Tail(elems), sep)

\* params[n:]
SliceFrom(params, n) == SubSeq(params, n + 1, Len(params))

---------------------------------------------------------------------------
(* competitorStat and handleEvent *)

\* the record handleEvent stores for an id it has not seen before
NewStat ==
    [registered    |-> FALSE,
     startTime     |-> ZeroTime,
     actualStart   |-> ZeroTime,
     lapsTime      |-> <<>>,
     penaltyTime   |-> <<>>,
     hits          |-> 0,
     notStarted    |-> FALSE,
     notFinished   |-> FALSE,
     finishTime    |-> ZeroTime,
     totalTime     |-> 0,
     comment       |-> "",
     lapSpeeds     |-> <<>>,
     penaltySpeeds |-> <<>>]

\* the comment written by the late-start rule (Russian text in the source)
LateStartComment == "Diskvalifitsirovan: start posle dopustimogo vremeni"

\* outcomes of a case of the switch; log is the message of the last logrus
\* call the case made, without its arguments
Ok(stat, log) == [panic |-> FALSE, err |-> FALSE, stat |-> stat, log |-> log]

Panics(stat) == [panic |-> TRUE, err |-> FALSE, stat |-> stat, log |-> ""]

Fails(stat) == [panic |-> FALSE, err |-> TRUE, stat |-> stat, log |-> ""]

\* case 1
Registered(stat) == Ok([stat EXCEPT !.registered = TRUE], "registered")

\* case 2
DrawStartTime(stat, params) ==
    IF Len(params) < 4 THEN Panics(stat)
    ELSE LET startTime == ParseTime(params[4])
         IN  IF startTime.err THEN Fails(stat)
             ELSE Ok([stat EXCEPT !.startTime = startTime.val],
                     "start time was set by a draw")

StartDeltaDuration(startDelta) == Hour(startDelta) * 60 + Minute(startDelta)

\* variant: the deadline taken from the clock value of startTime alone
DeadlineOfClock(stat, startDelta) ==
    Add(stat.startTime % 1440, StartDeltaDuration(startDelta))

Deadline(stat, startDelta) == Add(stat.startTime, StartDeltaDuration(startDelta))

\* variant: a start exactly at the deadline is late too
StartedNotStrict(stat, timeEv, startDelta) ==
    LET s1 == [stat EXCEPT !.actualStart = timeEv,
                           !.lapsTime = Append(@, <<timeEv, ZeroTime>>)]
    IN  IF ~After(Deadline(s1, startDelta), s1.actualStart)
        THEN Ok([s1 EXCEPT !.notStarted = TRUE, !.comment = LateStartComment],
                "disqualified")
        ELSE Ok(s1, "has started")

\* case 4
Started(stat, timeEv, startDelta) ==
    LET s1 == [stat EXCEPT !.actualStart = timeEv,
                           !.lapsTime = Append(@, <<timeEv, ZeroTime>>)]
    IN  IF After(s1.actualStart, Deadline(s1, startDelta))
        THEN Ok([s1 EXCEPT !.notStarted = TRUE, !.comment = LateStartComment],
                "disqualified")
        ELSE Ok(s1, "has started")

\* case 5
OnFiringRange(stat, params) ==
    IF Len(params) < 4 THEN Panics(stat) ELSE Ok(stat, "is on the firing range")

\* case 6
TargetHit(stat, params) ==
    IF Len(params) < 4 THEN Panics(stat)
    ELSE Ok([stat EXCEPT !.hits = @ + 1], "target has been hit")

\* case 8
EnteredPenalty(stat, timeEv) ==
    Ok([stat EXCEPT !.penaltyTime = Append(@, <<timeEv, ZeroTime>>)],
       "entered the penalty laps")

\* variant: the end is written to the first penalty interval
LeftPenaltyFirst(stat, timeEv) ==
    IF Len(stat.penaltyTime) = 0 THEN Panics(stat)
    ELSE Ok([stat EXCEPT !.penaltyTime[1][2] = timeEv],
            "left the penalty laps")

\* case 9: indexing an empty slice panics
LeftPenalty(stat, timeEv) ==
    IF Len(stat.penaltyTime) = 0 THEN Panics(stat)
    ELSE Ok([stat EXCEPT !.penaltyTime[Len(stat.penaltyTime)][2] = timeEv],
            "left the penalty laps")

\* variant: a new lap is opened while len(lapsTime) <= laps
EndedLapOneMore(stat, timeEv, laps) ==
    IF Len(stat.lapsTime) = 0 THEN Panics(stat)
    ELSE LET s1 == [stat EXCEPT !.lapsTime[Len(stat.lapsTime)][2] = timeEv]
         IN  IF Len(s1.lapsTime) <= laps
             THEN Ok([s1 EXCEPT !.lapsTime = Append(@, <<timeEv, ZeroTime>>)],
                     "ended the main lap")
             ELSE Ok([s1 EXCEPT !.finishTime = timeEv], "ended the main lap")

\* case 10: indexing an empty slice panics
EndedLap(stat, timeEv, laps) ==
    IF Len(stat.lapsTime) = 0 THEN Panics(stat)
    ELSE LET s1 == [stat EXCEPT !.lapsTime[Len(stat.lapsTime)][2] = timeEv]
         IN  IF Len(s1.lapsTime) < laps
             THEN Ok([s1 EXCEPT !.lapsTime = Append(@, <<timeEv, ZeroTime>>)],
                     "ended the main lap")
             ELSE Ok([s1 EXCEPT !.finishTime = timeEv], "ended the main lap")

\* variant: the comment taken from params[4:]
CannotContinueFromNext(stat, params) ==
    LET comment == Join(SliceFrom(params, 4), " ")
    IN  Ok([stat EXCEPT !.notFinished = TRUE, !.comment = comment], "cannot continue")

\* case 11
CannotContinue(stat, params) ==
    LET comment == Join(SliceFrom(params, 3), " ")
    IN  Ok([stat EXCEPT !.notFinished = TRUE, !.comment = comment], "cannot continue")

\* case 3
OnStartLine(stat) == Ok(stat, "is on the start line")

\* case 7
LeftFiringRange(stat) == Ok(stat, "left the firing range")

\* variant: the default shares the body of case 11
UnknownEventAsCannotContinue(stat) ==
    Ok([stat EXCEPT !.notFinished = TRUE], "unknown event ID")

\* default
UnknownEvent(stat) == Ok(stat, "unknown event ID")

\* the switch on idEv
Dispatch(idEv, stat, params, timeEv, startDelta, laps) ==
    CASE idEv = 1  -> Registered(stat)
      [] idEv = 2  -> DrawStartTime(stat, params)
      [] idEv = 3  -> OnStartLine(stat)
      [] idEv = 4  -> Started(stat, timeEv, startDelta)
      [] idEv = 5  -> OnFiringRange(stat, params)
      [] idEv = 6  -> TargetHit(stat, params)
      [] idEv = 7  -> LeftFiringRange(stat)
      [] idEv = 8  -> EnteredPenalty(stat, timeEv)
      [] idEv = 9  -> LeftPenalty(stat, timeEv)
      [] idEv = 10 -> EndedLap(stat, timeEv, laps)
      [] idEv = 11 -> CannotContinue(stat, params)
      [] OTHER     -> UnknownEvent(stat)

\* variant: the record of a new id is stored in a map of its own
WithStatAlone(stats, idComp) ==
    IF idComp \in DOMAIN stats THEN stats
    ELSE [id \in {idComp} |-> NewStat]

\* competitorStats[idComp], created when absent
WithStat(stats, idComp) ==
    IF idComp \in DOMAIN stats THEN stats
    ELSE [id \in DOMAIN stats \cup {idComp} |->
             IF id = idComp THEN NewStat ELSE stats[id]]

\* handleEvent: status is "nil" (no error), "error" (an error value is
\* returned) or "panic" (a run-time panic); stats is the map afterwards and
\* log the last logrus call made
handleEvent(params, stats, startDelta, laps) ==
    IF Len(params) < 3 THEN [status |-> "panic", stats |-> stats, log |-> ""]
    ELSE
    LET timeStr == params[1]
        idEvStr == params[2]
        idComp  == params[3]
        inner   == StripEnds[timeStr]
    IN  IF inner.panic THEN [status |-> "panic", stats |-> stats, log |-> ""]
        ELSE
        LET timeEv == ParseTime(inner.val)
            idEv   == Atoi(idEvStr)
        IN  IF timeEv.err THEN [status |-> "error", stats |-> stats, log |-> ""]
            ELSE IF idEv.err THEN [status |-> "error", stats |-> stats, log |-> ""]
            ELSE
            LET stats1 == WithStat(stats, idComp)
                out    == Dispatch(idEv.val, stats1[idComp], params,
                                   timeEv.val, startDelta, laps)
                stats2 == [stats1 EXCEPT ![idComp] = out.stat]
            IN  [status |-> IF out.panic THEN "panic"
                            ELSE IF out.err THEN "error" ELSE "nil",
                 stats  |-> stats2,
                 log    |-> out.log]

---------------------------------------------------------------------------
(* writeFinalReport *)

\* variant: the flags of statJ are not looked at
LessIgnoringOther(statI, statJ) ==
    IF statI.notStarted THEN TRUE
    ELSE IF statI.notFinished THEN TRUE
    ELSE Shorter(Sub(statI.finishTime, statI.actualStart),
                 Sub(statJ.finishTime, statJ.actualStart))

\* the comparator given to sort.Slice
Less(statI, statJ) ==
    IF statI.notStarted THEN TRUE
    ELSE IF statJ.notStarted THEN FALSE
    ELSE IF statI.notFinished THEN TRUE
    ELSE IF statJ.notFinished THEN FALSE
    ELSE Shorter(Sub(statI.finishTime, statI.actualStart),
                 Sub(statJ.finishTime, statJ.actualStart))

Swap(ids, i, j) == [ids EXCEPT ![i] = ids[j], ![j] = ids[i]]

RECURSIVE SiftLeft(_, _, _)
\* inner loop of the insertion sort: for j := i; j > a && less(j, j-1); j--
SiftLeft(ids, j, stats) ==
    IF j > 1 /\ Less(stats[ids[j]], stats[ids[j - 1]])
    THEN SiftLeft(Swap(ids, j, j - 1), j - 1, stats)
    ELSE ids

RECURSIVE InsertionSort(_, _, _)
\* sort.Slice sorts a slice of at most 12 elements by insertion
InsertionSort(ids, i, stats) ==
    IF i > Len(ids) THEN ids
    ELSE InsertionSort(SiftLeft(ids, i, stats), i + 1, stats)

SortSlice(ids, stats) == InsertionSort(ids, 2, stats)

\* hours, minutes, seconds and milliseconds of a duration, each as the code
\* takes it: int(d.Hours()), int(d.Minutes()) % 60, int(d.Seconds()) % 60,
\* d.Milliseconds() % 1000
DurationParts(d) ==
    [hours        |-> Quot(d.min, 60),
     minutes      |-> Rem(d.min, 60),
     seconds      |-> Quot(d.ms, 1000),
     milliseconds |-> Rem(d.ms, 1000)]

\* "%02d:%02d:%02d.%03d"
DurationText(d) ==
    LET p == DurationParts(d)
    IN  Pad2(p.hours) \o ":" \o Pad2(p.minutes) \o ":" \o Pad2(p.seconds)
            \o "." \o Pad3(p.milliseconds)

\* "%02d:%02d:%02d.%d", the format of the lap list
LapDurationText(d) ==
    LET p == DurationParts(d)
    IN  Pad2(p.hours) \o ":" \o Pad2(p.minutes) \o ":" \o Pad2(p.seconds)
            \o "." \o ToString(p.milliseconds)

NotStartedTag == "[NotStarted]"

NotFinishedTag == "[NotFinished]"

\* the total time field of a competitor with no flag
ElapsedText(totalTime) == "{" \o DurationText(totalTime) \o "}"

TotalTimeStr(stat) ==
    IF stat.notStarted THEN NotStartedTag
    ELSE IF stat.notFinished THEN NotFinishedTag
    ELSE ElapsedText(Sub(stat.finishTime, stat.actualStart))

\* float64(length) / d.Seconds(), kept as the quotient it is
Speed(length, d) == [length |-> length, over |-> d]

IsClosed(interval) == ~(IsZero(interval[1]) \/ IsZero(interval[2]))

\* the element of the lap list of a closed lap that took lapTime
ClosedLapEntry(lapTime, lapLen) ==
    [text |-> LapDurationText(lapTime), speeds |-> <<Speed(lapLen, lapTime)>>]

\* one element of the lap list
LapEntry(lap, lapLen) ==
    IF ~IsClosed(lap)
    THEN [text |-> "{,}", speeds |-> <<>>]
    ELSE ClosedLapEntry(Sub(lap[2], lap[1]), lapLen)

\* the element of the penalty list of a closed interval that took penaltyTime
ClosedPenaltyEntry(penaltyTime, penaltyLen) ==
    [text |-> DurationText(penaltyTime), speeds |-> <<Speed(penaltyLen, penaltyTime)>>]

\* one element of the penalty list
PenaltyEntry(penalty, penaltyLen) ==
    IF ~IsClosed(penalty)
    THEN [text |-> "{,}", speeds |-> <<>>]
    ELSE ClosedPenaltyEntry(Sub(penalty[2], penalty[1]), penaltyLen)

RECURSIVE Speeds(_)
\* the speeds of the closed intervals of a list, in order
Speeds(entries) ==
    IF Len(entries) = 0 THEN <<>>
    ELSE entries[1].speeds \o Speeds(Tail(entries))

\* the line written for one competitor
ReportLine(id, stat, lapLen, penaltyLen, firingLines) ==
    [total     |-> TotalTimeStr(stat),
     id        |-> id,
     laps      |-> [i \in 1..Len(stat.lapsTime) |-> LapEntry(stat.lapsTime[i], lapLen)],
     penalties |-> [i \in 1..Len(stat.penaltyTime) |->
                       PenaltyEntry(stat.penaltyTime[i], penaltyLen)],
     hits      |-> stat.hits,
     shots     |-> 5 * firingLines]

\* the record of one competitor after its line is built: the speeds computed
\* for the line are appended to the record
AfterLine(stat, line) ==
    [stat EXCEPT !.lapSpeeds = @ \o Speeds(line.laps),
                 !.penaltySpeeds = @ \o Speeds(line.penalties)]

\* writeFinalReport; order is the order in which range yields the map's keys
writeFinalReport(stats, order, lapLen, penaltyLen, firingLines) ==
    LET competitorIDs == SortSlice(order, stats)
        lines == [k \in 1..Len(competitorIDs) |->
                     ReportLine(competitorIDs[k], stats[competitorIDs[k]],
                                lapLen, penaltyLen, firingLines)]
        lineOf(id) == lines[CHOOSE k \in 1..Len(lines) : lines[k].id = id]
    IN  [lines |-> lines,
         stats |-> [id \in DOMAIN stats |-> AfterLine(stats[id], lineOf(id))]]

\* the orders in which a map with key set S can be traversed
Orders(S) ==
    {f \in [1..Cardinality(S) -> S] : \A i, j \in 1..Cardinality(S) : f[i] = f[j] => i = j}

---------------------------------------------------------------------------
(* Input lines *)

StampOf(t) == "[" \o ClockTable[t] \o "]"

Comments == {<<"Lost">>, <<"Lost", "in", "the", "forest">>}

\* the codes whose case stores the time of the event
TimedCodes == {4, 8, 9, 10}

\* the time of the lines of the other codes
FirstTime == CHOOSE t \in Times : \A u \in Times : t <= u

\* well-formed lines: every code with no extra field, codes 2, 5, 6 with
\* their field, code 11 with a comment
GoodLines ==
    {<<StampOf(t), ToString(k), id>> : t \in Times, k \in TimedCodes, id \in IDs}
    \cup {<<StampOf(FirstTime), ToString(k), id>> : k \in 1..MaxCode, id \in IDs}
    \cup {<<StampOf(FirstTime), "2", id, ClockTable[u]>> : id \in IDs, u \in Times}
    \cup {<<StampOf(FirstTime), ToString(k), id, "1">> : id \in IDs, k \in {5, 6}}
    \cup {<<StampOf(FirstTime), "11", id>> \o c : id \in IDs, c \in Comments}

\* lines the decoder rejects
BadLines ==
    {<<"[10:00]", "4", "1">>, <<"[10:00:00.000]", "x", "1">>,
     <<"[10:00:00.000]", "2", "1", ShortClockText(600)>>,
     <<"[10:00:00.000]", "4">>, <<"[", "4", "1">>}

Lines == GoodLines \cup BadLines

---------------------------------------------------------------------------
(* The run of main *)

Configs ==
    [laps : {1, MaxLaps}, startDelta : {0, 30 * MaxDelta},
     lapLen : {3500}, penaltyLen : {150}, firingLines : {2}]

Init ==
    /\ competitorsStats = << >>
    /\ pc = "scan"
    /\ scanned = 0
    /\ logged = ""
    /\ report = << >>
    /\ cfg \in Configs

\* variant: the error returned by handleEvent is logged and the loop goes on
ScanLineGoesOn(params) ==
    LET r == handleEvent(params, competitorsStats, cfg.startDelta, cfg.laps)
    IN  /\ pc = "scan"
        /\ competitorsStats' = r.stats
        /\ pc' = (CASE r.status = "nil" -> "scan"
                    [] r.status = "error" -> "scan"
                    [] r.status = "panic" -> "panic")
        /\ scanned' = scanned + 1
        /\ logged' = (CASE r.status = "nil" -> r.log
                        [] r.status = "error" -> "fatal"
                        [] r.status = "panic" -> logged)
        /\ UNCHANGED <<report, cfg>>

\* one turn of the scanner loop on the line params
ScanLine(params) ==
    LET r == handleEvent(params, competitorsStats, cfg.startDelta, cfg.laps)
    IN  /\ pc = "scan"
        /\ competitorsStats' = r.stats
        /\ pc' = (CASE r.status = "nil" -> "scan"
                    [] r.status = "error" -> "fatal"
                    [] r.status = "panic" -> "panic")
        /\ scanned' = scanned + 1
        /\ logged' = (CASE r.status = "nil" -> r.log
                        [] r.status = "error" -> "fatal"
                        [] r.status = "panic" -> logged)
        /\ UNCHANGED <<report, cfg>>

Scan == scanned < MaxEvents /\ \E params \in Lines : ScanLine(params)

\* end of input: the table is written
WriteReport ==
    /\ pc = "scan"
    /\ \E order \in Orders(DOMAIN competitorsStats) :
          LET r == writeFinalReport(competitorsStats, order, cfg.lapLen,
                                    cfg.penaltyLen, cfg.firingLines)
          IN  /\ report' = r.lines
              /\ competitorsStats' = r.stats
    /\ pc' = "done"
    /\ UNCHANGED <<scanned, logged, cfg>>

Next == Scan \/ WriteReport

Spec == Init /\ [][Next]_vars

---------------------------------------------------------------------------
(* The one-lap race: registered, draw, started, ended-lap, one line each   *)

\* the four lines of the race of one competitor, the drawn start time
\* written as payload
ScenarioFile(payload) ==
    << <<StampOf(600), "1", "1">>,
       <<StampOf(600), "2", "1", payload>>,
       <<StampOf(600), "4", "1">>,
       <<StampOf(630), "10", "1">> >>

ScenarioLen == 4

\* the lines read at position k of the file: the line of the race for each
\* id and each time, the drawn time in the layout of timeFormat and without
\* the fraction
ScenarioLinesAt(k) ==
    CASE k = 1 -> {<<StampOf(600), "1", id>> : id \in IDs}
      [] k = 2 -> {<<StampOf(600), "2", id, ClockTable[u]>> :
                       id \in IDs, u \in ScenarioTimes}
                  \cup {<<StampOf(600), "2", id, ShortClockText(u)>> :
                       id \in IDs, u \in ScenarioTimes}
      [] k = 3 -> {<<StampOf(t), "4", id>> : id \in IDs, t \in ScenarioTimes}
      [] k = 4 -> {<<StampOf(t), "10", id>> : id \in IDs, t \in ScenarioTimes}

\* one turn of the scanner loop on the next line of such a file
ScanScenario ==
    /\ scanned < ScenarioLen
    /\ \E params \in ScenarioLinesAt(scanned + 1) : ScanLine(params)

NextScenario == ScanScenario \/ WriteReport

SpecScenario == Init /\ [][NextScenario]_vars

---------------------------------------------------------------------------
(* Ranking of given ledgers: the ledger is the result of applying to each  *)
(* of the ids one of the runs below, with one lap and no start interval    *)

MaxRanked == 3

RankIDs == {ToString(k) : k \in 1..MaxRanked}

LastTime == CHOOSE t \in Times : \A u \in Times : t >= u

\* event sequences of one competitor
RunsOf(id) ==
    LET line(t, k) == <<StampOf(t), ToString(k), id>>
        draw == <<StampOf(FirstTime), "2", id, ClockTable[FirstTime]>>
        quit == <<StampOf(FirstTime), "11", id, "Lost">>
    IN  << <<line(FirstTime, 1)>>,
           <<line(FirstTime, 4)>>,
           <<line(FirstTime, 4), line(FirstTime, 10)>>,
           <<line(FirstTime, 4), line(LastTime, 10)>>,
           <<line(LastTime, 4), line(LastTime, 10)>>,
           <<draw, line(FirstTime, 4), line(LastTime, 10)>>,
           <<draw, line(LastTime, 4)>>,
           <<draw, line(LastTime, 4), line(LastTime, 10)>>,
           <<quit>>,
           <<line(FirstTime, 4), quit>>,
           <<line(FirstTime, 4), line(LastTime, 10), quit>>,
           <<draw, line(LastTime, 4), quit>> >>

RankConfig ==
    [laps |-> 1, startDelta |-> 0, lapLen |-> 3500, penaltyLen |-> 150,
     firingLines |-> 2]

RECURSIVE ApplyAll(_, _, _)
\* the scanner loop over the lines of a file, all of them accepted
ApplyAll(lines, stats, config) ==
    IF Len(lines) = 0 THEN stats
    ELSE ApplyAll(Tail(lines),
                  handleEvent(Head(lines), stats, config.startDelta, config.laps).stats,
                  config)

RECURSIVE FileOf(_, _)
\* the events file made of the chosen run of every id
FileOf(choice, ids) ==
    IF ids = {} THEN << >>
    ELSE LET id == CHOOSE x \in ids : TRUE
         IN  RunsOf(id)[choice[id]] \o FileOf(choice, ids \ {id})

InitRank ==
    /\ \E choice \in [RankIDs -> 1..Len(RunsOf("1"))] :
          /\ competitorsStats = ApplyAll(FileOf(choice, RankIDs), << >>, RankConfig)
          /\ scanned = Len(FileOf(choice, RankIDs))
    /\ pc = "scan"
    /\ logged = ""
    /\ report = << >>
    /\ cfg = RankConfig

NextRank == WriteReport

SpecRank == InitRank /\ [][NextRank]_vars

---------------------------------------------------------------------------
(* The texts of durations: the report line of a competitor whose total     *)
(* time, lap and penalty interval all took the same time                   *)

MaxHours == 2

\* durations below MaxHours + 1 hours, with and without leading zeros in
\* every part
RenderedDurations ==
    {Duration(60 * h + m, 1000 * s + ms) :
        h \in 0..MaxHours, m \in {0, 2, 59}, s \in {0, 3, 59},
        ms \in {0, 4, 40, 400, 999}}

\* the line writeFinalReport builds from the three durations
DurationsLine(id, total, lapTime, penaltyTime, lapLen, penaltyLen, firingLines) ==
    [total     |-> ElapsedText(total),
     id        |-> id,
     laps      |-> <<ClosedLapEntry(lapTime, lapLen)>>,
     penalties |-> <<ClosedPenaltyEntry(penaltyTime, penaltyLen)>>,
     hits      |-> 0,
     shots     |-> 5 * firingLines]

\* the table of one such competitor is written
WriteDurations ==
    /\ pc = "scan"
    /\ \E d \in RenderedDurations :
          report' = <<DurationsLine("1", d, d, d, cfg.lapLen, cfg.penaltyLen,
                                    cfg.firingLines)>>
    /\ pc' = "done"
    /\ UNCHANGED <<competitorsStats, scanned, logged, cfg>>

NextFormat == WriteDurations

SpecFormat == Init /\ [][NextFormat]_vars

---------------------------------------------------------------------------
(* Properties *)

\* the record handleEvent works on for id: the stored one, or a new one
StatOf(stats, id) == IF id \in DOMAIN stats THEN stats[id] ELSE NewStat

LinesOfCode(k) == {params \in GoodLines : params[2] = ToString(k)}

StartedLines == LinesOfCode(4)

LeftPenaltyLines == LinesOfCode(9)

EndedLapLines == LinesOfCode(10)

CannotContinueLines == LinesOfCode(11)

\* the messages a started event can log last
StartedLogs == {"has started", "disqualified"}

UnknownLines == {params \in GoodLines : Atoi(params[2]).val \notin 1..11}

HasOpen(intervals) ==
    Len(intervals) > 0 /\ IsZero(intervals[Len(intervals)][2])

OpenCount(intervals) ==
    Cardinality({i \in 1..Len(intervals) : IsZero(intervals[i][2])})

\* C1: for every competitor the number of lap intervals is at most the
\* configured lap count
C1_LapsWithinLapCount ==
    \A id \in DOMAIN competitorsStats :
        Len(competitorsStats[id].lapsTime) <= cfg.laps

\* C2: a left-penalty-loop event (code 9) for a competitor with no open
\* penalty interval makes handleEvent return an error, and the penalty
\* intervals stay as they were
C2_LeftPenaltyWithoutOpenFails ==
    [][\A params \in LeftPenaltyLines :
          LET before == StatOf(competitorsStats, params[3])
          IN  (~HasOpen(before.penaltyTime) /\ ScanLine(params))
                  => /\ pc' = "fatal"
                     /\ competitorsStats'[params[3]].penaltyTime = before.penaltyTime]_vars

\* C3: an ended-lap event (code 10) for a competitor with no open lap
\* interval makes handleEvent return an error, and the lap intervals and
\* finishTime stay as they were
C3_EndedLapWithoutOpenFails ==
    [][\A params \in EndedLapLines :
          LET before == StatOf(competitorsStats, params[3])
          IN  (~HasOpen(before.lapsTime) /\ ScanLine(params))
                  => /\ pc' = "fatal"
                     /\ competitorsStats'[params[3]].lapsTime = before.lapsTime
                     /\ competitorsStats'[params[3]].finishTime = before.finishTime]_vars

\* C4: for every competitor at most one lap interval and at most one
\* penalty interval has an unset end
C4_AtMostOneOpen ==
    \A id \in DOMAIN competitorsStats :
        /\ OpenCount(competitorsStats[id].lapsTime) <= 1
        /\ OpenCount(competitorsStats[id].penaltyTime) <= 1

\* C5: a finishTime that is set never changes, and finishTime becomes set
\* only by an ended-lap event after which the competitor has exactly the
\* configured number of lap intervals
C5_FinishTimeSetOnce ==
    [][\A id \in DOMAIN competitorsStats' :
          LET before == StatOf(competitorsStats, id)
              after  == competitorsStats'[id]
          IN  /\ ~IsZero(before.finishTime) => after.finishTime = before.finishTime
              /\ (IsZero(before.finishTime) /\ ~IsZero(after.finishTime))
                    => /\ \E params \in EndedLapLines :
                              params[3] = id /\ ScanLine(params)
                       /\ Len(after.lapsTime) = cfg.laps]_vars

\* C6 as claimed: a competitor with startTime and actualStart both set is
\* marked notStarted exactly when actualStart is after startTime + startDelta
C6_MarkedIffLate ==
    \A id \in DOMAIN competitorsStats :
        LET stat == competitorsStats[id]
        IN  (~IsZero(stat.startTime) /\ ~IsZero(stat.actualStart))
                => (stat.notStarted <=>
                        stat.actualStart > stat.startTime + cfg.startDelta)

\* C6 as amended: a started event (code 4) for a competitor whose startTime
\* is set leaves the competitor marked notStarted exactly when it was marked
\* before or the time of the event is after startTime + startDelta; no other
\* step changes notStarted
C6_LateStartDecidedAtStarted ==
    [][\A id \in DOMAIN competitorsStats' :
          LET before == StatOf(competitorsStats, id)
              after  == competitorsStats'[id]
          IN  IF logged' \in StartedLogs
                 /\ \E params \in StartedLines : params[3] = id /\ ScanLine(params)
              THEN ~IsZero(before.startTime)
                      => (after.notStarted <=>
                             (before.notStarted
                                \/ after.actualStart > before.startTime + cfg.startDelta))
              ELSE after.notStarted = before.notStarted]_vars

\* a competitor marked for a start after the deadline, the mark made by the
\* last line applied
C6_Witness ==
    \E id \in DOMAIN competitorsStats :
        LET late == competitorsStats[id]
        IN  /\ ~IsZero(late.startTime)
            /\ late.notStarted
            /\ late.actualStart > late.startTime + cfg.startDelta
            /\ late.comment = LateStartComment
            /\ logged = "disqualified"

\* C7: a started event (code 4) for a competitor whose startTime is unset
\* leaves notStarted false and the comment as it was
C7_NoLateStartWithoutDraw ==
    [][\A params \in StartedLines :
          LET before == StatOf(competitorsStats, params[3])
          IN  (IsZero(before.startTime) /\ logged' \in StartedLogs /\ ScanLine(params))
                  => /\ competitorsStats'[params[3]].notStarted = FALSE
                     /\ competitorsStats'[params[3]].comment = before.comment]_vars

\* a competitor that has started without a draw and has a comment
C7_Witness ==
    \E id \in DOMAIN competitorsStats :
        LET stat == competitorsStats[id]
        IN  /\ IsZero(stat.startTime)
            /\ ~IsZero(stat.actualStart)
            /\ Len(stat.lapsTime) > 0
            /\ stat.comment = "Lost"
            /\ ~stat.notStarted
            /\ logged = "has started"

Tier(stat) == IF stat.notStarted THEN 0 ELSE IF stat.notFinished THEN 1 ELSE 2

Elapsed(stat) == stat.finishTime - stat.actualStart

\* C8: the report has one line per competitor, and its lines are in ranked
\* order: notStarted first, then notFinished, then the others by
\* non-decreasing finishTime - actualStart
C8_ReportIsRanked ==
    pc = "done" =>
        /\ Len(report) = Cardinality(DOMAIN competitorsStats)
        /\ \A i, j \in 1..Len(report) :
              i < j =>
                 LET a == competitorsStats[report[i].id]
                     b == competitorsStats[report[j].id]
                 IN  /\ report[i].id # report[j].id
                     /\ Tier(a) <= Tier(b)
                     /\ (Tier(a) = 2 /\ Tier(b) = 2) => Elapsed(a) <= Elapsed(b)

\* a report with a line of each of the three kinds
C8_Witness ==
    /\ pc = "done"
    /\ \E i, j, k \in 1..Len(report) :
          /\ Tier(competitorsStats[report[i].id]) = 0
          /\ Tier(competitorsStats[report[j].id]) = 1
          /\ Tier(competitorsStats[report[k].id]) = 2

\* C9: a line with a code outside 1..11 is accepted and leaves every record
\* already in the ledger as it was
C9_UnknownCodeChangesNothing ==
    [][\A params \in UnknownLines :
          (logged' = "unknown event ID" /\ ScanLine(params))
              => /\ pc' = "scan"
                 /\ \A id \in DOMAIN competitorsStats :
                       competitorsStats'[id] = competitorsStats[id]]_vars

\* an unknown code was the last line applied, to a ledger in which a
\* competitor has started
C9_Witness ==
    /\ logged = "unknown event ID"
    /\ pc = "scan"
    /\ \E id \in DOMAIN competitorsStats : Len(competitorsStats[id].lapsTime) > 0

\* the text of the comments of the input lines
CommentText ==
    [c \in Comments \cup {<< >>} |->
        CASE c = << >> -> ""
          [] c = <<"Lost">> -> "Lost"
          [] c = <<"Lost", "in", "the", "forest">> -> "Lost in the forest"]

\* a cannot-continue event (code 11) for a competitor without finishTime
\* sets notFinished and the comment
CannotContinueEffect ==
    \A params \in CannotContinueLines :
        LET before == StatOf(competitorsStats, params[3])
        IN  (IsZero(before.finishTime) /\ logged' = "cannot continue" /\ ScanLine(params))
                => /\ competitorsStats'[params[3]].notFinished
                   /\ competitorsStats'[params[3]].comment
                          = CommentText[SliceFrom(params, 3)]

\* C10 as claimed: the effect of cannot-continue, and the line of every
\* notFinished competitor without finishTime has the NotFinished tag
C10_NotFinishedTagAlways ==
    /\ [][CannotContinueEffect]_vars
    /\ [](pc = "done" =>
            \A k \in 1..Len(report) :
                LET stat == competitorsStats[report[k].id]
                IN  (stat.notFinished /\ IsZero(stat.finishTime))
                        => report[k].total = "[NotFinished]")

\* C10 as amended: the effect of cannot-continue, and the line of every
\* notFinished competitor has the NotFinished tag unless the competitor is
\* notStarted too, and then it has the NotStarted tag
C10_NotFinishedTagUnlessNotStarted ==
    /\ [][CannotContinueEffect]_vars
    /\ [](pc = "done" =>
            \A k \in 1..Len(report) :
                LET stat == competitorsStats[report[k].id]
                IN  stat.notFinished
                        => report[k].total = IF stat.notStarted THEN "[NotStarted]"
                                             ELSE "[NotFinished]")

\* the report of a competitor that gave up on the first lap
C10_Witness ==
    /\ pc = "done"
    /\ \E k \in 1..Len(report) :
          LET stat == competitorsStats[report[k].id]
          IN  /\ stat.notFinished
              /\ ~stat.notStarted
              /\ stat.comment = "Lost in the forest"
              /\ Len(stat.lapsTime) > 0
              /\ IsZero(stat.finishTime)
              /\ report[k].total = "[NotFinished]"

PayloadCodes == {2, 5, 6}

\* the lines of at least three fields with a time handleEvent cannot read,
\* with a code that is no integer, or with a code of PayloadCodes and no
\* fourth field
MalformedLines ==
    {params \in Lines :
        /\ Len(params) >= 3
        /\ \/ StripEnds[params[1]].panic
           \/ ParseTime(StripEnds[params[1]].val).err
           \/ Atoi(params[2]).err
           \/ (Atoi(params[2]).val \in PayloadCodes /\ Len(params) < 4)}

\* C12: for a line whose time cannot be parsed, whose code is not an
\* integer, or whose code is 2, 5 or 6 and whose fourth field is absent,
\* handleEvent returns an error (main ends with logrus.Fatal), it does not
\* panic
C12_MalformedLineIsRefused ==
    [][\A params \in MalformedLines :
          (pc' # "done" /\ ScanLine(params)) => pc' = "fatal"]_vars

\* C13: the step that writes the report leaves competitorsStats as it was:
\* the same ids, and every field of every record unchanged
C13_ReportOnlyReads ==
    [][pc' = "done" =>
          /\ DOMAIN competitorsStats' = DOMAIN competitorsStats
          /\ \A id \in DOMAIN competitorsStats :
                competitorsStats'[id] = competitorsStats[id]]_vars

\* the result the one-lap race is said to have: one competitor, neither
\* notStarted nor notFinished, 30 minutes from actualStart to finishTime,
\* and one lap interval, closed, of 30 minutes
ScenarioOutcome(stats) ==
    /\ DOMAIN stats = {"1"}
    /\ ~stats["1"].notStarted
    /\ ~stats["1"].notFinished
    /\ ~IsZero(stats["1"].actualStart)
    /\ ~IsZero(stats["1"].finishTime)
    /\ Sub(stats["1"].finishTime, stats["1"].actualStart) = Duration(30, 0)
    /\ Len(stats["1"].lapsTime) = 1
    /\ IsClosed(stats["1"].lapsTime[1])
    /\ Sub(stats["1"].lapsTime[1][2], stats["1"].lapsTime[1][1]) = Duration(30, 0)

\* with lap count 1, every line of file, read after the lines before it, is
\* accepted, and the last one gives the result of the one-lap race
ScenarioApplies(file) ==
    \A k \in 1..Len(file) :
        (/\ cfg.laps = 1
         /\ scanned = k - 1
         /\ competitorsStats = ApplyAll(SubSeq(file, 1, k - 1), << >>, cfg)
         /\ ScanLine(file[k]))
            => /\ pc' = "scan"
               /\ k = Len(file) => ScenarioOutcome(competitorsStats')

\* C14 as claimed: the lines registered, draw with the payload 10:00:00,
\* started at 10:00:00.000 and ended-lap at 10:30:00.000 of competitor 1 are
\* all accepted with lap count 1 and give one competitor, not notStarted,
\* not notFinished, with 30 minutes elapsed and one closed lap of 30 minutes
C14_ScenarioAsWritten ==
    [][ScenarioApplies(ScenarioFile(ShortClockText(600)))]_vars

\* C14 as amended: the same with the payload 10:00:00.000, the layout of
\* timeFormat
C14_ScenarioWithFraction ==
    [][ScenarioApplies(ScenarioFile(ClockTable[600]))]_vars

\* the four lines were read with lap count 1 and gave the result
C14_Witness ==
    /\ pc = "scan"
    /\ scanned = ScenarioLen
    /\ cfg.laps = 1
    /\ competitorsStats = ApplyAll(ScenarioFile(ClockTable[600]), << >>, cfg)
    /\ ScenarioOutcome(competitorsStats)
    /\ competitorsStats["1"].registered
    /\ competitorsStats["1"].startTime = 600

\* the time of the event of a line
TimeOf(params) == ParseTime(StripEnds[params[1]].val).val

\* an ended-lap event (code 10) with time t for a competitor with an open
\* lap interval sets the end of the last lap interval to t; then, when the
\* number of lap intervals is below the lap count, it appends an interval
\* that starts at t and leaves finishTime unset, and otherwise it sets
\* finishTime to t and appends nothing
EndedLapEffect ==
    \A params \in EndedLapLines :
        LET before == StatOf(competitorsStats, params[3])
            n      == Len(before.lapsTime)
            t      == TimeOf(params)
        IN  (HasOpen(before.lapsTime) /\ logged' = "ended the main lap" /\ ScanLine(params))
                => LET after  == competitorsStats'[params[3]]
                       closed == [before.lapsTime EXCEPT ![n][2] = t]
                   IN  IF n < cfg.laps
                       THEN /\ after.lapsTime = Append(closed, <<t, ZeroTime>>)
                            /\ IsZero(after.finishTime)
                       ELSE /\ after.lapsTime = closed
                            /\ after.finishTime = t

\* every competitor with finishTime set has exactly the configured number
\* of lap intervals, all of them closed
FinishedHasAllLaps ==
    \A id \in DOMAIN competitorsStats :
        LET stat == competitorsStats[id]
        IN  ~IsZero(stat.finishTime)
                => /\ Len(stat.lapsTime) = cfg.laps
                   /\ \A i \in 1..Len(stat.lapsTime) : IsClosed(stat.lapsTime[i])

\* C15: the effect of ended-lap on a competitor with an open lap, and in
\* every state a competitor with finishTime set has exactly lap-count lap
\* intervals, every one closed
C15_EndedLapAdvancesOrFinishes ==
    /\ [][EndedLapEffect]_vars
    /\ []FinishedHasAllLaps

\* C16: a left-penalty-loop event (code 9) with time t for a competitor
\* with a penalty interval whose end is unset is accepted and sets the end
\* of the last penalty interval, the one opened most recently, to t; the
\* start of that interval, the intervals before it and the number of
\* intervals stay as they were
C16_LeftPenaltyClosesLast ==
    [][\A params \in LeftPenaltyLines :
          LET before == StatOf(competitorsStats, params[3]).penaltyTime
              n      == Len(before)
          IN  (OpenCount(before) > 0 /\ pc' # "done" /\ ScanLine(params))
                  => LET after == competitorsStats'[params[3]].penaltyTime
                     IN  /\ pc' = "scan"
                         /\ logged' = "left the penalty laps"
                         /\ Len(after) = n
                         /\ after[n][2] = TimeOf(params)
                         /\ after[n][1] = before[n][1]
                         /\ \A i \in 1..(n - 1) : after[i] = before[i]]_vars

\* a competitor that entered the penalty laps twice and left them once: the
\* second interval is closed by the last line, the first one is as it was
C16_Witness ==
    /\ logged = "left the penalty laps"
    /\ \E id \in DOMAIN competitorsStats :
          LET penaltyTime == competitorsStats[id].penaltyTime
          IN  /\ Len(penaltyTime) = 2
              /\ IsZero(penaltyTime[1][2])
              /\ ~IsZero(penaltyTime[2][2])
              /\ penaltyTime[2][2] > penaltyTime[2][1]

\* a duration of less than 100 hours written as HH:MM:SS.mmm: two digits
\* of hours, minutes and seconds and three of milliseconds, with
\* hours * 3600000 + minutes * 60000 + seconds * 1000 + milliseconds the
\* duration in milliseconds
ClockTextOf(d) ==
    LET hours        == d.min \div 60
        minutes      == d.min % 60
        seconds      == d.ms \div 1000
        milliseconds == d.ms % 1000
        digits2(n)   == ToString(n \div 10) \o ToString(n % 10)
        digits3(n)   == ToString(n \div 100) \o digits2(n % 100)
    IN  digits2(hours) \o ":" \o digits2(minutes) \o ":" \o digits2(seconds)
            \o "." \o digits3(milliseconds)

\* C17: the total time, every lap time and every penalty time of a report
\* line is the duration written as HH:MM:SS.mmm; the duration of an entry is
\* the one its speed was computed from
C17_DurationsAsClockText ==
    pc = "done" =>
        \A k \in 1..Len(report) :
            /\ \A i \in 1..Len(report[k].laps) :
                  LET lap == report[k].laps[i]
                  IN  /\ lap.text = ClockTextOf(lap.speeds[1].over)
                      /\ report[k].total = "{" \o ClockTextOf(lap.speeds[1].over) \o "}"
            /\ \A i \in 1..Len(report[k].penalties) :
                  LET penalty == report[k].penalties[i]
                  IN  penalty.text = ClockTextOf(penalty.speeds[1].over)

\* C18: a report line whose total time field is not one of the two tags
\* belongs to a competitor that has finished: actualStart and finishTime are
\* set and there are exactly lap-count lap intervals, all closed
C18_ElapsedOnlyForFinishers ==
    pc = "done" =>
        \A k \in 1..Len(report) :
            LET stat == competitorsStats[report[k].id]
            IN  report[k].total \notin {NotStartedTag, NotFinishedTag}
                    => /\ ~IsZero(stat.actualStart)
                       /\ ~IsZero(stat.finishTime)
                       /\ Len(stat.lapsTime) = cfg.laps
                       /\ \A i \in 1..Len(stat.lapsTime) : IsClosed(stat.lapsTime[i])

\* the records of the ledger
RecordsOf(stats) == {stats[id] : id \in DOMAIN stats}

\* C19: on the records of the ledger the comparator given to sort.Slice is
\* irreflexive, asymmetric and transitive
C19_LessIsStrictWeakOrder ==
    \A a, b, c \in RecordsOf(competitorsStats) :
        /\ ~Less(a, a)
        /\ ~(Less(a, b) /\ Less(b, a))
        /\ (Less(a, b) /\ Less(b, c)) => Less(a, c)

\* the ids whose record is new or not what it was before the step
Touched ==
    {id \in DOMAIN competitorsStats' :
        id \notin DOMAIN competitorsStats
            \/ competitorsStats'[id] # competitorsStats[id]}

\* C20: a step that applies a line keeps every id of the ledger, and the
\* only record it adds or changes is the one of the id the line names
C20_OtherRecordsUntouched ==
    [][pc' # "done" =>
          /\ DOMAIN competitorsStats \subseteq DOMAIN competitorsStats'
          /\ \/ Touched = {}
             \/ /\ Cardinality(Touched) = 1
                /\ \A params \in Lines :
                      (Len(params) < 3 \/ params[3] \notin Touched)
                          => ~ScanLine(params)]_vars

\* the last line applied was a hit of competitor 2, and competitor 1, on
\* its first lap, has no hit
C20_Witness ==
    /\ pc = "scan"
    /\ logged = "target has been hit"
    /\ DOMAIN competitorsStats = {"1", "2"}
    /\ competitorsStats["2"].hits = 1
    /\ competitorsStats["2"].lapsTime = << >>
    /\ competitorsStats["1"].hits = 0
    /\ Len(competitorsStats["1"].lapsTime) = 1

====
